---- MODULE Spec2Model ----
(***************************************************************************)
(* State-machine model of the scheduling engine: Scheduler (Scheduler.cpp), *)
(* PQTree (PQTree.cpp) and the entity / requirement / schedule classes      *)
(* (Models.cpp).                                                            *)
(*                                                                          *)
(* Pointers are modelled by the values they point to: the Section and       *)
(* Requirement objects handed to the scheduler are drawn from the fixed     *)
(* sets SectionObjects and RequirementObjects, so shared_ptr equality is    *)
(* equality of the object.  The back-reference lists Course::sections and   *)
(* Teacher::courses that addSection also appends to are not read by any     *)
(* operation modelled here and are left out of the state.                   *)
(***************************************************************************)
EXTENDS Integers, Sequences, FiniteSets, TLC

\* ---------------------------------------------------------------- bounds
MaxSections == 3
MaxRequirements == 2

\* ------------------------------------------------------- TimeSlot (Models)
MONDAY == 0
TUESDAY == 1
WEDNESDAY == 2
THURSDAY == 3
FRIDAY == 4
UNASSIGNED == 5

Weekdays == <<MONDAY, TUESDAY, WEDNESDAY, THURSDAY, FRIDAY>>

dayNames == <<"Mon", "Tue", "Wed", "Thu", "Fri", "?">>

TimeSlot(durationMinutes, day, startHour, startMinute) ==
    [durationMinutes |-> durationMinutes, day |-> day,
     startHour |-> startHour, startMinute |-> startMinute]

\* TimeSlot(duration): day = UNASSIGNED, startHour = startMinute = -1
DurationOnly(durationMinutes) == TimeSlot(durationMinutes, UNASSIGNED, -1, -1)

hasStartTime(ts) == ts.startHour >= 0 /\ ts.startMinute >= 0

hasDay(ts) == ts.day # UNASSIGNED

\* The text toString prints, field by field.  kind "min" is the form
\* "<name> (<dur> min)", kind "range" the form "<name> h[:mm]-h[:mm] AM|PM";
\* a minute field of 0 is a minute part that is not printed.
toString(ts) ==
    IF ~hasDay(ts)
    THEN [name |-> "Unassigned", kind |-> "min", dur |-> ts.durationMinutes,
          h |-> 0, m |-> 0, eh |-> 0, em |-> 0, ampm |-> ""]
    ELSE IF ~hasStartTime(ts)
    THEN [name |-> dayNames[ts.day + 1], kind |-> "min", dur |-> ts.durationMinutes,
          h |-> 0, m |-> 0, eh |-> 0, em |-> 0, ampm |-> ""]
    ELSE LET h12a == IF ts.startHour > 12 THEN ts.startHour - 12 ELSE ts.startHour
             hour12 == IF h12a = 0 THEN 12 ELSE h12a
             endMinute == (ts.startMinute + ts.durationMinutes) % 60
             endHour == ts.startHour + ((ts.startMinute + ts.durationMinutes) \div 60)
             e12a == IF endHour > 12 THEN endHour - 12 ELSE endHour
             endHour12 == IF e12a = 0 THEN 12 ELSE e12a
         IN [name |-> dayNames[ts.day + 1], kind |-> "range", dur |-> 0,
             h |-> hour12, m |-> ts.startMinute, eh |-> endHour12, em |-> endMinute,
             ampm |-> IF ts.startHour < 12 THEN "AM" ELSE "PM"]

StartTotalMinutes(ts) == ts.startHour * 60 + ts.startMinute

\* overlaps with closed ranges: slots that only touch count as overlapping
overlaps_closedRanges(a, b) ==
    IF ~hasDay(a) \/ ~hasDay(b) THEN FALSE
    ELSE IF a.day # b.day THEN FALSE
    ELSE IF ~hasStartTime(a) \/ ~hasStartTime(b) THEN FALSE
    ELSE /\ StartTotalMinutes(a) <= StartTotalMinutes(b) + b.durationMinutes
         /\ StartTotalMinutes(a) + a.durationMinutes >= StartTotalMinutes(b)

overlaps(a, b) ==
    IF ~hasDay(a) \/ ~hasDay(b) THEN FALSE
    ELSE IF a.day # b.day THEN FALSE
    ELSE IF ~hasStartTime(a) \/ ~hasStartTime(b) THEN FALSE
    ELSE /\ StartTotalMinutes(a) < StartTotalMinutes(b) + b.durationMinutes
         /\ StartTotalMinutes(a) + a.durationMinutes > StartTotalMinutes(b)

\* ------------------------------------------------ entities (Models, UI data)
Courses == {"CS101", "MA101"}
Teachers == {"T1", "T2"}

\* Teacher::getName of each teacher id
TeacherName == [t \in Teachers |-> IF t = "T1" THEN "Ali" ELSE "Sara"]

Section(id, course, teacher, timeSlot) ==
    [id |-> id, course |-> course, teacher |-> teacher, timeSlot |-> timeSlot]

\* The Section objects a caller can register: created with a duration-only
\* TimeSlot, as the section form does.  A and B share course, teacher and
\* duration; C has A's teacher; D has A's course with another teacher.
SectionObjects ==
    { Section("A", "CS101", "T1", DurationOnly(60)),
      Section("B", "CS101", "T1", DurationOnly(60)),
      Section("C", "MA101", "T1", DurationOnly(90)),
      Section("D", "CS101", "T2", DurationOnly(60)) }

SectionIds == {s.id : s \in SectionObjects}

SectionById(id) == CHOOSE s \in SectionObjects : s.id = id

\* Section objects as schedules hold them: placed by tryCreateScheduleWithTimes
\* or createScheduleVariations (day and start time), placed from a day-only
\* pin (no start time), or still as registered (no day, no start time).
PlacedObjects ==
    { Section("A", "CS101", "T1", TimeSlot(60, MONDAY, 9, 0)),
      Section("B", "CS101", "T1", TimeSlot(60, MONDAY, 9, 30)),
      Section("C", "MA101", "T1", TimeSlot(90, MONDAY, 10, 0)),
      Section("D", "CS101", "T2", TimeSlot(60, MONDAY, 9, 0)),
      Section("A", "CS101", "T1", TimeSlot(60, MONDAY, -1, -1)),
      Section("B", "CS101", "T1", DurationOnly(60)),
      Section("B", "CS101", "T1", TimeSlot(90, MONDAY, 9, 0)),
      Section("A", "CS101", "T1", TimeSlot(60, TUESDAY, 9, 0)) }

\* -------------------------------------------------------------- Requirement
NoSection == "-"
NoCourse == "-"
NoTeacher == "-"

\* SectionTimeSlotRequirement(section, timeSlot); the requirement form gives
\* the pin's TimeSlot the duration of the section.
SectionTimeSlotRequirement(sectionId, day, startHour, startMinute) ==
    [kind |-> "SectionTimeSlot", section |-> sectionId, course |-> NoCourse,
     teacher |-> NoTeacher,
     timeSlot |-> TimeSlot(SectionById(sectionId).timeSlot.durationMinutes,
                           day, startHour, startMinute)]

TimeSlotRequirement(course, timeSlot) ==
    [kind |-> "TimeSlot", section |-> NoSection, course |-> course,
     teacher |-> NoTeacher, timeSlot |-> timeSlot]

TeacherRequirement(course, teacher) ==
    [kind |-> "Teacher", section |-> NoSection, course |-> course,
     teacher |-> teacher, timeSlot |-> DurationOnly(0)]

RequirementObjects ==
    { SectionTimeSlotRequirement("A", MONDAY, 9, 0),
      SectionTimeSlotRequirement("B", MONDAY, 9, 0),
      SectionTimeSlotRequirement("C", MONDAY, 9, 30),
      SectionTimeSlotRequirement("A", TUESDAY, -1, -1),
      TimeSlotRequirement("CS101", TimeSlot(60, TUESDAY, -1, -1)),
      TeacherRequirement("CS101", "T2") }

PinObjects == {r \in RequirementObjects : r.kind = "SectionTimeSlot"}

\* ----------------------------------------------------------------- helpers
Range(seq) == {seq[i] : i \in 1..Len(seq)}

Reverse(seq) == [i \in 1..Len(seq) |-> seq[Len(seq) + 1 - i]]

RemoveAt(seq, i) == [k \in 1..(Len(seq) - 1) |-> IF k < i THEN seq[k] ELSE seq[k + 1]]

RECURSIVE Flatten(_)
Flatten(seqs) == IF seqs = <<>> THEN <<>> ELSE Head(seqs) \o Flatten(Tail(seqs))

\* lexicographic order of integer sequences (operator< of vector / string)
LexLess(a, b) ==
    \E k \in 1..Len(b) :
        /\ \A j \in 1..(k - 1) : j <= Len(a) /\ a[j] = b[j]
        /\ (k > Len(a) \/ a[k] < b[k])


\* ------------------------------------------------------------------- state
VARIABLES
    courses,            \* Scheduler::courses
    teachers,           \* Scheduler::teachers
    sections,           \* Scheduler::sections, in registration order
    requirements,       \* Scheduler::requirements, in registration order
    possibleSchedules,  \* Scheduler::possibleSchedules (the candidate pool)
    currentSchedule,    \* Scheduler::currentSchedule: 0 is nullptr, i > 0 points
                        \* at possibleSchedules[i]
    permutations,       \* the frontiers the last generateSchedule() enumerated
    candidates,         \* per frontier of the last generateSchedule(): its
                        \* sectionIndices and the baseSchedule it was given
    returned,           \* what the last generateSchedule() returned
    lastOp,             \* the operation that ran last
    tieOrder,           \* how this build's std::sort leaves equal elements
    treeRoot,           \* PQTree::root of a tree built by hand
    frontiers,          \* what the last PQTree::getFrontiers() returned
    treeOp,             \* the PQTree operation that ran last
    treeArg,            \* the argument of that operation (<<>> when it has none)
    treeResult,         \* what the last PQTree::reduce() returned
    scheduleA,          \* Schedule::sections of a Schedule object
    scheduleB,          \* Schedule::sections of a second Schedule object
    query,              \* the const member function called last, with its argument
    answer              \* what that call returned

schedulerVars == <<courses, teachers, sections, requirements, possibleSchedules, currentSchedule,
                   permutations, candidates, returned, lastOp>>

treeVars == <<treeRoot, frontiers, treeOp, treeArg, treeResult>>

scheduleVars == <<scheduleA, scheduleB, query, answer>>

vars == <<schedulerVars, tieOrder, treeVars, scheduleVars>>

\* ------------------------------------------------------------- std::sort
\* the two comparators std::sort is called with
\* the comparator looking at the day only
TimeOrderLess_byDayOnly(a, b) == a.timeSlot.day < b.timeSlot.day

TimeOrderLess(a, b) ==
    \/ a.timeSlot.day < b.timeSlot.day
    \/ (a.timeSlot.day = b.timeSlot.day /\ a.timeSlot.startHour < b.timeSlot.startHour)

DurationLonger(a, b) == a.timeSlot.durationMinutes > b.timeSlot.durationMinutes

Less(comp, a, b) ==
    IF comp = "TimeOrderLess" THEN TimeOrderLess(a, b) ELSE DurationLonger(a, b)

\* The stable arrangement of seq under the strict weak order comp.
StableSort(seq, comp) ==
    LET n == Len(seq)
        rank(i) == Cardinality({j \in 1..n :
                       \/ Less(comp, seq[j], seq[i])
                       \/ (~Less(comp, seq[i], seq[j]) /\ j < i)}) + 1
        at == [r \in 1..n |-> CHOOSE i \in 1..n : rank(i) = r]
    IN [r \in 1..n |-> seq[at[r]]]

\* std::sort that leaves the sequence as it was
StdSort_unsorted(seq, comp) == seq

\* std::sort is not stable: the relative order of equivalent elements is left
\* to the library.  tieOrder fixes one of two outcomes for the whole run.
StdSort(seq, comp) ==
    StableSort(IF tieOrder = "keep" THEN seq ELSE Reverse(seq), comp)

\* ------------------------------------------------------------------ labels
\* "<courseCode> (<teacherName>, <timeSlot.toString()>)"
SectionLabel(s) ==
    [code |-> s.course, teacher |-> TeacherName[s.teacher], slot |-> toString(s.timeSlot)]

\* Position of a label in std::string order, as a sequence of numbers compared
\* lexicographically: course code, teacher name, then the printed time slot
\* (names by alphabetical rank, '(' before digits, numbers of equal width).
CodeRank(c) == IF c = "CS101" THEN 1 ELSE 2
NameRank(n) == IF n = "Ali" THEN 1 ELSE 2
DayNameRank(n) ==
    CASE n = "?" -> 0 [] n = "Fri" -> 1 [] n = "Mon" -> 2 [] n = "Thu" -> 3
      [] n = "Tue" -> 4 [] n = "Unassigned" -> 5 [] n = "Wed" -> 6

LabelKey(l) ==
    <<CodeRank(l.code), NameRank(l.teacher), DayNameRank(l.slot.name),
      IF l.slot.kind = "min" THEN 0 ELSE 1,
      l.slot.dur, l.slot.h, l.slot.m, l.slot.eh, l.slot.em,
      IF l.slot.ampm = "AM" THEN 0 ELSE 1>>

\* operator< of std::string on two labels
LabelLess(a, b) == LexLess(LabelKey(a), LabelKey(b))

\* operator< of std::vector<std::string>: the first differing label decides,
\* a proper prefix is smaller
RECURSIVE FrontierLess(_, _)
FrontierLess(p, q) ==
    IF q = <<>> THEN FALSE
    ELSE IF p = <<>> THEN TRUE
    ELSE IF Head(p) = Head(q) THEN FrontierLess(Tail(p), Tail(q))
    ELSE LabelLess(Head(p), Head(q))

\* ------------------------------------------------------------------ PQTree
\* the label of a node that is not a section's leaf
NodeLabel(text) == [text |-> text]

Leaf(label) == [type |-> "LEAF", label |-> label, children |-> <<>>]
PNode(label, children) == [type |-> "P_NODE", label |-> label, children |-> children]
QNode(label, children) == [type |-> "Q_NODE", label |-> label, children |-> children]
NullRoot == [type |-> "NULL", label |-> NodeLabel(""), children |-> <<>>]

buildTimeOrderedTree(secs) ==
    LET sortedSections == StdSort(secs, "TimeOrderLess")
    IN QNode(NodeLabel("TimeOrdered"),
             [i \in 1..Len(sortedSections) |-> Leaf(SectionLabel(sortedSections[i]))])

\* std::sort(flat.begin(), flat.end()): equal labels are the same string,
\* so the result does not depend on how ties are left
RECURSIVE SortLabels(_)
SortLabels(flat) ==
    IF flat = <<>> THEN <<>>
    ELSE LET rest == SortLabels(Tail(flat))
             before == SelectSeq(rest, LAMBDA l : ~LabelLess(Head(flat), l))
             after == SelectSeq(rest, LAMBDA l : LabelLess(Head(flat), l))
         IN before \o <<Head(flat)>> \o after

\* the arrangements of the sorted sequence flat in the order the
\* do / while (std::next_permutation) loop visits them: each distinct
\* arrangement once, in increasing order
RECURSIVE Arrangements(_)
Arrangements(flat) ==
    IF flat = <<>> THEN << <<>> >>
    ELSE LET firsts == SelectSeq([i \in 1..Len(flat) |-> i],
                                 LAMBDA i : i = 1 \/ flat[i - 1] # flat[i])
         IN Flatten([k \in 1..Len(firsts) |->
                LET rest == Arrangements(RemoveAt(flat, firsts[k]))
                IN [r \in 1..Len(rest) |-> <<flat[firsts[k]]>> \o rest[r]]])

\* the std::set built from the vector perms, read from begin() to end(): the
\* distinct elements in increasing order (perms itself when it already is
\* strictly increasing)
UniqueSet(perms) ==
    IF \A i \in 1..(Len(perms) - 1) : FrontierLess(perms[i], perms[i + 1])
    THEN perms
    ELSE LET S == Range(perms)
             smaller == [p \in S |-> Cardinality({q \in S : FrontierLess(q, p)})]
         IN [r \in 1..Cardinality(S) |-> CHOOSE p \in S : smaller[p] = r - 1]

RECURSIVE generatePermutations(_, _)
generatePermutations(node, current) ==
    IF node.type = "LEAF" THEN << Append(current, node.label) >>
    ELSE LET allChildrenLabels ==
                 Flatten([i \in 1..Len(node.children) |->
                              generatePermutations(node.children[i], <<>>)])
             flat == Flatten(allChildrenLabels)
         IN IF node.type = "P_NODE"
            THEN LET perms == Arrangements(SortLabels(flat))
                 IN [i \in 1..Len(perms) |-> current \o perms[i]]
            ELSE IF flat # Reverse(flat)
                 THEN << current \o flat, current \o Reverse(flat) >>
                 ELSE << current \o flat >>

getFrontiers(root) ==
    LET perms == IF root.type # "NULL" THEN generatePermutations(root, <<>>) ELSE <<>>
    IN UniqueSet(perms)

\* reduce answering true for the empty subset only
reduce_emptyOnly(root, subset) == [result |-> subset = {}, root |-> root]

\* PQTree::reduce: the body is "return true", the tree is not touched
reduce(root, subset) == [result |-> TRUE, root |-> root]

\* the orders std::shuffle can leave n children in
Shuffles(n) == {f \in [1..n -> 1..n] : \A i, j \in 1..n : i # j => f[i] # f[j]}

\* PQTree::reorderNode: the nodes the call can leave in place of node.  A
\* P-node's children are shuffled, a Q-node's children are reversed when
\* rand() is even, then every child is reordered in turn.
RECURSIVE reorderNode(_)
reorderNode(node) ==
    LET n == Len(node.children)
        orders == IF node.type = "P_NODE" THEN Shuffles(n)
                  ELSE IF node.type = "Q_NODE"
                       THEN {[i \in 1..n |-> i], [i \in 1..n |-> n + 1 - i]}
                       ELSE {[i \in 1..n |-> i]}
        below == [i \in 1..n |-> reorderNode(node.children[i])]
    IN {[node EXCEPT !.children = [i \in 1..n |-> c[f[i]]]] :
            f \in orders,
            c \in {g \in [1..n -> UNION {below[i] : i \in 1..n}] :
                       \A i \in 1..n : g[i] \in below[i]}}

\* PQTree::reorder: nothing happens without a root
reorder(root) == IF root.type = "NULL" THEN {root} ELSE reorderNode(root)


\* ---------------------------------------------------------------- Schedule
\* A Schedule is the sequence of its Section values (Schedule::sections).
hasConflicts(schedule) ==
    \E i, j \in 1..Len(schedule) :
        /\ i < j
        /\ schedule[i].teacher = schedule[j].teacher
        /\ hasDay(schedule[i].timeSlot) /\ hasStartTime(schedule[i].timeSlot)
        /\ hasDay(schedule[j].timeSlot) /\ hasStartTime(schedule[j].timeSlot)
        /\ overlaps(schedule[i].timeSlot, schedule[j].timeSlot)

getSectionsForCourse(schedule, courseCode) ==
    SelectSeq(schedule, LAMBDA s : s.course = courseCode)

\* ------------------------------------------------- Requirement::isSatisfied
TimeSlotRequirement_isSatisfied(req, schedule) ==
    \E s \in Range(getSectionsForCourse(schedule, req.course)) :
        /\ hasDay(req.timeSlot) =>
               (hasDay(s.timeSlot) /\ s.timeSlot.day = req.timeSlot.day)
        /\ hasStartTime(req.timeSlot) =>
               /\ hasStartTime(s.timeSlot)
               /\ s.timeSlot.startHour = req.timeSlot.startHour
               /\ s.timeSlot.startMinute = req.timeSlot.startMinute

TeacherRequirement_isSatisfied(req, schedule) ==
    \E s \in Range(getSectionsForCourse(schedule, req.course)) : s.teacher = req.teacher

\* SectionTimeSlotRequirement::isSatisfied without the comparison of days
SectionTimeSlotRequirement_isSatisfied_anyDay(req, schedule) ==
    LET hits == {i \in 1..Len(schedule) : schedule[i].id = req.section}
    IN IF hits = {} THEN FALSE
       ELSE LET i == CHOOSE k \in hits : \A m \in hits : k <= m
                sectionTimeSlot == schedule[i].timeSlot
            IN IF /\ hasStartTime(req.timeSlot)
                  /\ \/ ~hasStartTime(sectionTimeSlot)
                     \/ sectionTimeSlot.startHour # req.timeSlot.startHour
                     \/ sectionTimeSlot.startMinute # req.timeSlot.startMinute
               THEN FALSE
               ELSE TRUE

\* decided by the first section of the schedule that has the pinned id
SectionTimeSlotRequirement_isSatisfied(req, schedule) ==
    LET hits == {i \in 1..Len(schedule) : schedule[i].id = req.section}
    IN IF hits = {} THEN FALSE
       ELSE LET i == CHOOSE k \in hits : \A m \in hits : k <= m
                sectionTimeSlot == schedule[i].timeSlot
            IN IF /\ hasDay(req.timeSlot)
                  /\ (~hasDay(sectionTimeSlot) \/ sectionTimeSlot.day # req.timeSlot.day)
               THEN FALSE
               ELSE IF /\ hasStartTime(req.timeSlot)
                       /\ \/ ~hasStartTime(sectionTimeSlot)
                          \/ sectionTimeSlot.startHour # req.timeSlot.startHour
                          \/ sectionTimeSlot.startMinute # req.timeSlot.startMinute
               THEN FALSE
               ELSE TRUE

isSatisfied(req, schedule) ==
    CASE req.kind = "TimeSlot" -> TimeSlotRequirement_isSatisfied(req, schedule)
      [] req.kind = "Teacher" -> TeacherRequirement_isSatisfied(req, schedule)
      [] req.kind = "SectionTimeSlot" -> SectionTimeSlotRequirement_isSatisfied(req, schedule)

\* --------------------------------------- Scheduler::tryCreateScheduleWithTimes
\* dynamic_pointer_cast<SectionTimeSlotRequirement>(req) succeeds and names id
\* the test also taking a course-level TimeSlotRequirement for a pin of
\* every section
IsSectionReqFor_anyTimeSlot(req, id) ==
    \/ req.kind = "SectionTimeSlot" /\ req.section = id
    \/ req.kind = "TimeSlot"

IsSectionReqFor(req, id) == req.kind = "SectionTimeSlot" /\ req.section = id

hasSpecificRequirement(reqs, section) ==
    \E k \in 1..Len(reqs) : IsSectionReqFor(reqs[k], section.id)

\* the requirement the placement loop stops at: the first matching one
MatchingRequirement(reqs, section) ==
    reqs[CHOOSE k \in 1..Len(reqs) :
             /\ IsSectionReqFor(reqs[k], section.id)
             /\ \A m \in 1..(k - 1) : ~IsSectionReqFor(reqs[m], section.id)]

DayStartMinutes == 8 * 60

\* latestEndTimeByDay after its initialisation; reading the map at a day it
\* has no entry for (UNASSIGNED) inserts 0
InitialLatestEndTimeByDay ==
    [d \in MONDAY..UNASSIGNED |-> IF d = UNASSIGNED THEN 0 ELSE DayStartMinutes]

Max(a, b) == IF a >= b THEN a ELSE b

\* RaiseWatermark that leaves the day's latest end time as it was
RaiseWatermark_unchanged(latest, day, endTime) == latest

\* latestEndTimeByDay[day] = std::max(latestEndTimeByDay[day], endTime)
RaiseWatermark(latest, day, endTime) ==
    [latest EXCEPT ![day] = Max(latest[day], endTime)]

RECURSIVE PlacePinned(_, _, _, _)
PlacePinned(reqs, withReq, latest, schedule) ==
    IF withReq = <<>> THEN [latest |-> latest, schedule |-> schedule]
    ELSE LET section == Head(withReq)
             reqTimeSlot == MatchingRequirement(reqs, section).timeSlot
             day == reqTimeSlot.day
             startTime == reqTimeSlot.startHour * 60 + reqTimeSlot.startMinute
             duration == section.timeSlot.durationMinutes
             endTime == startTime + duration
             timeSlot == TimeSlot(duration, day, reqTimeSlot.startHour,
                                  reqTimeSlot.startMinute)
             scheduleSection == Section(section.id, section.course, section.teacher, timeSlot)
         IN PlacePinned(reqs, Tail(withReq),
                        RaiseWatermark(latest, day, endTime),
                        Append(schedule, scheduleSection))

\* the scan for the day with the earliest end time: a later day replaces the
\* selected one only when its end time is strictly smaller
RECURSIVE ScanDays(_, _, _, _)
ScanDays(latest, k, selectedDay, earliestEndTime) ==
    IF k > Len(Weekdays) THEN selectedDay
    ELSE IF latest[Weekdays[k]] < earliestEndTime
         THEN ScanDays(latest, k + 1, Weekdays[k], latest[Weekdays[k]])
         ELSE ScanDays(latest, k + 1, selectedDay, earliestEndTime)

INT_MAX == 2147483647

\* SelectDay without the scan: the initial choice is kept
SelectDay_noScan(latest) == MONDAY

SelectDay(latest) == ScanDays(latest, 1, MONDAY, INT_MAX)

RECURSIVE PlaceFlexible(_, _, _)
PlaceFlexible(withoutReq, latest, schedule) ==
    IF withoutReq = <<>> THEN schedule
    ELSE LET section == Head(withoutReq)
             selectedDay == SelectDay(latest)
             startTime == latest[selectedDay]
             duration == section.timeSlot.durationMinutes
             endTime == startTime + duration
             timeSlot == TimeSlot(duration, selectedDay, startTime \div 60, startTime % 60)
             scheduleSection == Section(section.id, section.course, section.teacher, timeSlot)
         IN PlaceFlexible(Tail(withoutReq),
                          [latest EXCEPT ![selectedDay] = endTime],
                          Append(schedule, scheduleSection))

\* tryCreateScheduleWithTimes without the final conflict check
tryCreateScheduleWithTimes_keepConflicts(secs, reqs, permutation) ==
    LET selectedSections == [i \in 1..Len(permutation) |-> secs[permutation[i]]]
        sectionsWithRequirements ==
            SelectSeq(selectedSections, LAMBDA s : hasSpecificRequirement(reqs, s))
        sectionsWithoutRequirements ==
            SelectSeq(selectedSections, LAMBDA s : ~hasSpecificRequirement(reqs, s))
        pinned == PlacePinned(reqs, sectionsWithRequirements,
                              InitialLatestEndTimeByDay, <<>>)
    IN PlaceFlexible(StdSort(sectionsWithoutRequirements, "DurationLonger"),
                     pinned.latest, pinned.schedule)

\* permutation: indices into secs (1-based); the result <<>> is Schedule()
tryCreateScheduleWithTimes(secs, reqs, permutation) ==
    LET selectedSections == [i \in 1..Len(permutation) |-> secs[permutation[i]]]
        sectionsWithRequirements ==
            SelectSeq(selectedSections, LAMBDA s : hasSpecificRequirement(reqs, s))
        sectionsWithoutRequirements ==
            SelectSeq(selectedSections, LAMBDA s : ~hasSpecificRequirement(reqs, s))
        pinned == PlacePinned(reqs, sectionsWithRequirements,
                              InitialLatestEndTimeByDay, <<>>)
        schedule == PlaceFlexible(StdSort(sectionsWithoutRequirements, "DurationLonger"),
                                  pinned.latest, pinned.schedule)
    IN IF hasConflicts(schedule) THEN <<>> ELSE schedule


\* ------------------------------------------ Scheduler::areSchedulesEquivalent
\* areSchedulesEquivalent that also compares the section ids
areSchedulesEquivalent_sameIds(a, b) ==
    /\ Len(a) = Len(b)
    /\ \A i \in 1..Len(a) : \E j \in 1..Len(b) :
           /\ a[i].id = b[j].id
           /\ a[i].course = b[j].course
           /\ a[i].teacher = b[j].teacher
           /\ a[i].timeSlot.day = b[j].timeSlot.day
           /\ a[i].timeSlot.startHour = b[j].timeSlot.startHour
           /\ a[i].timeSlot.startMinute = b[j].timeSlot.startMinute

\* areSchedulesEquivalent without the comparison of the sizes
areSchedulesEquivalent_noSizeCheck(a, b) ==
    \A i \in 1..Len(a) : \E j \in 1..Len(b) :
        /\ a[i].course = b[j].course
        /\ a[i].teacher = b[j].teacher
        /\ a[i].timeSlot.day = b[j].timeSlot.day
        /\ a[i].timeSlot.startHour = b[j].timeSlot.startHour
        /\ a[i].timeSlot.startMinute = b[j].timeSlot.startMinute

areSchedulesEquivalent(a, b) ==
    /\ Len(a) = Len(b)
    /\ \A i \in 1..Len(a) : \E j \in 1..Len(b) :
           /\ a[i].course = b[j].course
           /\ a[i].teacher = b[j].teacher
           /\ a[i].timeSlot.day = b[j].timeSlot.day
           /\ a[i].timeSlot.startHour = b[j].timeSlot.startHour
           /\ a[i].timeSlot.startMinute = b[j].timeSlot.startMinute

\* ----------------------------------------- Scheduler::createScheduleVariations
VariantCount == 3
MorningHour == 9
AfternoonHour == 14
DaysPerWeek == 5

\* the slot of variant 1, 2 or 3 of a section placed at currentTimeSlot
VariantTimeSlot(currentTimeSlot, variant) ==
    LET newDay == (currentTimeSlot.day + variant) % DaysPerWeek
    IN CASE variant = 1 -> TimeSlot(currentTimeSlot.durationMinutes, newDay,
                                    currentTimeSlot.startHour, currentTimeSlot.startMinute)
         [] variant = 2 -> TimeSlot(currentTimeSlot.durationMinutes, newDay, MorningHour, 0)
         [] variant = 3 -> TimeSlot(currentTimeSlot.durationMinutes, newDay, AfternoonHour, 0)

\* the copy of baseSchedule in which the first section with the id of
\* flexibleSection is removed and newSection is added at the end
ReplaceSection(baseSchedule, flexibleSection, newSection) ==
    LET hits == {i \in 1..Len(baseSchedule) : baseSchedule[i].id = flexibleSection.id}
    IN IF hits = {} THEN baseSchedule
       ELSE Append(RemoveAt(baseSchedule, CHOOSE k \in hits : \A m \in hits : k <= m),
                   newSection)

\* AcceptVariant without the conflict check
AcceptVariant_noConflictCheck(pool, newSchedule) ==
    IF ~\E k \in 1..Len(pool) : areSchedulesEquivalent(newSchedule, pool[k])
    THEN Append(pool, newSchedule)
    ELSE pool

\* a variant enters the pool when it is conflict-free and the pool holds no
\* schedule it is equivalent to
AcceptVariant(pool, newSchedule) ==
    IF /\ ~hasConflicts(newSchedule)
       /\ ~\E k \in 1..Len(pool) : areSchedulesEquivalent(newSchedule, pool[k])
    THEN Append(pool, newSchedule)
    ELSE pool

RECURSIVE VaryFrom(_, _, _, _, _)
VaryFrom(baseSchedule, flexible, f, variant, pool) ==
    IF f > Len(flexible) THEN pool
    ELSE IF variant > VariantCount THEN VaryFrom(baseSchedule, flexible, f + 1, 1, pool)
    ELSE LET flexibleSection == flexible[f]
             newSection == Section(flexibleSection.id, flexibleSection.course,
                                   flexibleSection.teacher,
                                   VariantTimeSlot(flexibleSection.timeSlot, variant))
             newSchedule == ReplaceSection(baseSchedule, flexibleSection, newSection)
         IN VaryFrom(baseSchedule, flexible, f, variant + 1,
                     AcceptVariant(pool, newSchedule))

\* the pool after createScheduleVariations(baseSchedule)
createScheduleVariations(reqs, baseSchedule, pool) ==
    LET sectionsWithoutRequirements ==
            SelectSeq(baseSchedule, LAMBDA s : ~hasSpecificRequirement(reqs, s))
    IN VaryFrom(baseSchedule, sectionsWithoutRequirements, 1, 1, pool)

\* -------------------------------------------------- Scheduler::generateSchedule
\* the index of the first section whose label is `label`, 0 when there is none
\* (the alternative match against "Leaf: " + label never applies: the leaves
\* are labelled by the same expression, without a prefix)
FindSection(allSections, label) ==
    LET hits == {i \in 1..Len(allSections) : SectionLabel(allSections[i]) = label}
    IN IF hits = {} THEN 0 ELSE CHOOSE k \in hits : \A m \in hits : k <= m

\* sectionIndices of one frontier: labels that match no section add nothing
SectionIndices(allSections, permutation) ==
    SelectSeq([i \in 1..Len(permutation) |-> FindSection(allSections, permutation[i])],
              LAMBDA k : k # 0)

\* AcceptBase without the test for an empty schedule
AcceptBase_keepEmpty(reqs, baseSchedule, pool) ==
    createScheduleVariations(reqs, baseSchedule, Append(pool, baseSchedule))

\* a base schedule enters the pool whenever it is not empty
AcceptBase(reqs, baseSchedule, pool) ==
    IF Len(baseSchedule) > 0
    THEN createScheduleVariations(reqs, baseSchedule, Append(pool, baseSchedule))
    ELSE pool

RECURSIVE ForEachPermutation(_, _, _, _)
ForEachPermutation(allSections, reqs, perms, pool) ==
    IF perms = <<>> THEN pool
    ELSE LET permutation == Head(perms)
             sectionIndices == SectionIndices(allSections, permutation)
         IN IF Len(sectionIndices) # Len(permutation)
            THEN ForEachPermutation(allSections, reqs, Tail(perms), pool)
            ELSE ForEachPermutation(allSections, reqs, Tail(perms),
                     AcceptBase(reqs,
                                tryCreateScheduleWithTimes(allSections, reqs, sectionIndices),
                                pool))

\* ------------------------------------------ Scheduler::findSatisfyingSchedule
satisfiesAll(reqs, schedule) ==
    \A k \in 1..Len(reqs) : isSatisfied(reqs[k], schedule)

\* findSatisfyingSchedule keeping the last satisfying schedule, not the first
findSatisfyingSchedule_lastFound(reqs, pool) ==
    IF pool = <<>> THEN [returned |-> FALSE, currentSchedule |-> 0]
    ELSE LET good == {i \in 1..Len(pool) : satisfiesAll(reqs, pool[i])}
         IN IF good # {}
            THEN [returned |-> TRUE,
                  currentSchedule |-> CHOOSE i \in good : \A m \in good : i >= m]
            ELSE [returned |-> FALSE, currentSchedule |-> 1]

\* findSatisfyingSchedule without the fallback to the first schedule
findSatisfyingSchedule_noFallback(reqs, pool) ==
    IF pool = <<>> THEN [returned |-> FALSE, currentSchedule |-> 0]
    ELSE LET good == {i \in 1..Len(pool) : satisfiesAll(reqs, pool[i])}
         IN IF good # {}
            THEN [returned |-> TRUE,
                  currentSchedule |-> CHOOSE i \in good : \A m \in good : i <= m]
            ELSE [returned |-> FALSE, currentSchedule |-> 0]

findSatisfyingSchedule(reqs, pool) ==
    IF pool = <<>> THEN [returned |-> FALSE, currentSchedule |-> 0]
    ELSE LET good == {i \in 1..Len(pool) : satisfiesAll(reqs, pool[i])}
         IN IF good # {}
            THEN [returned |-> TRUE,
                  currentSchedule |-> CHOOSE i \in good : \A m \in good : i <= m]
            ELSE [returned |-> FALSE, currentSchedule |-> 1]

\* what the loop over the frontiers hands to and gets from
\* tryCreateScheduleWithTimes: one entry per frontier whose labels all matched
Candidates(allSections, reqs, perms) ==
    LET tried == SelectSeq(perms,
                     LAMBDA p : Len(SectionIndices(allSections, p)) = Len(p))
    IN [i \in 1..Len(tried) |->
           LET sectionIndices == SectionIndices(allSections, tried[i])
           IN [sectionIndices |-> sectionIndices,
               baseSchedule |-> tryCreateScheduleWithTimes(allSections, reqs,
                                                           sectionIndices)]]

\* the registered sections after a run that placed them in place: each takes
\* the slot it has in the first schedule of the pool
RegisteredAfterRun_placedInPlace(allSections, pool) ==
    IF pool = <<>> THEN allSections
    ELSE [i \in 1..Len(allSections) |->
             IF \E m \in 1..Len(pool[1]) : pool[1][m].id = allSections[i].id
             THEN pool[1][CHOOSE m \in 1..Len(pool[1]) : pool[1][m].id = allSections[i].id]
             ELSE allSections[i]]

\* The registered Section objects after a run that left pool: every section of
\* a schedule is a new object made from the id, course, teacher and duration
\* of a registered one (std::make_shared<Section>), which is only read.
RegisteredAfterRun(allSections, pool) == allSections

\* possibleSchedules after a "clear" that keeps what it held
ClearedPool_kept(pool) == pool

\* possibleSchedules.clear() at the start of generateSchedule()
ClearedPool(pool) == <<>>

\* ------------------------------------------------------------------ actions
\* Scheduler() calls clear()
SchedulerInit ==
    /\ courses = <<>>
    /\ teachers = <<>>
    /\ sections = <<>>
    /\ requirements = <<>>
    /\ possibleSchedules = <<>>
    /\ currentSchedule = 0
    /\ permutations = <<>>
    /\ candidates = <<>>
    /\ returned = FALSE
    /\ lastOp = "clear"

\* PQTree() : root(nullptr)
TreeInit ==
    /\ treeRoot = NullRoot
    /\ frontiers = <<>>
    /\ treeOp = "PQTree"
    /\ treeArg = <<>>
    /\ treeResult = FALSE

\* Schedule() holds no section
ScheduleInit ==
    /\ scheduleA = <<>>
    /\ scheduleB = <<>>
    /\ query = <<"Schedule">>
    /\ answer = FALSE

Init ==
    /\ SchedulerInit
    /\ tieOrder \in {"keep", "flip"}
    /\ TreeInit
    /\ ScheduleInit

\* The call sequences of this specification: the caller registers entities
\* and requirements while the scheduler holds no result, and calls clear()
\* before registering again after a run that produced schedules.
NoResultHeld == possibleSchedules = <<>> /\ currentSchedule = 0

\* no run's outputs are at hand after an operation other than generateSchedule
NoRunOutputs == permutations' = <<>> /\ candidates' = <<>> /\ returned' = FALSE

addCourse(course) ==
    /\ course \notin Range(courses)
    /\ courses' = Append(courses, course)
    /\ lastOp' = "register"
    /\ NoRunOutputs
    /\ UNCHANGED <<teachers, sections, requirements, possibleSchedules, currentSchedule, tieOrder>>
    /\ UNCHANGED <<treeVars, scheduleVars>>

addTeacher(teacher) ==
    /\ teacher \notin Range(teachers)
    /\ teachers' = Append(teachers, teacher)
    /\ lastOp' = "register"
    /\ NoRunOutputs
    /\ UNCHANGED <<courses, sections, requirements, possibleSchedules, currentSchedule, tieOrder>>
    /\ UNCHANGED <<treeVars, scheduleVars>>

addSection(section) ==
    /\ Len(sections) < MaxSections
    /\ section \notin Range(sections)
    /\ sections' = Append(sections, section)
    /\ lastOp' = "register"
    /\ NoRunOutputs
    /\ UNCHANGED <<courses, teachers, requirements, possibleSchedules, currentSchedule, tieOrder>>
    /\ UNCHANGED <<treeVars, scheduleVars>>

addRequirement(requirement) ==
    /\ Len(requirements) < MaxRequirements
    /\ requirement \notin Range(requirements)
    /\ requirements' = Append(requirements, requirement)
    /\ lastOp' = "register"
    /\ NoRunOutputs
    /\ UNCHANGED <<courses, teachers, sections, possibleSchedules, currentSchedule, tieOrder>>
    /\ UNCHANGED <<treeVars, scheduleVars>>

removeRequirement(requirement) ==
    /\ requirement \in Range(requirements)
    /\ requirements' = SelectSeq(requirements, LAMBDA r : r # requirement)
    /\ lastOp' = "register"
    /\ NoRunOutputs
    /\ UNCHANGED <<courses, teachers, sections, possibleSchedules, currentSchedule, tieOrder>>
    /\ UNCHANGED <<treeVars, scheduleVars>>

\* what one call of generateSchedule() does to the scheduler
GenerateScheduleBody ==
    LET perms == getFrontiers(buildTimeOrderedTree(sections))
        pool == ForEachPermutation(sections, requirements, perms,
                                   ClearedPool(possibleSchedules))
        found == findSatisfyingSchedule(requirements, pool)
    IN /\ permutations' = perms
       /\ candidates' = Candidates(sections, requirements, perms)
       /\ possibleSchedules' = pool
       /\ currentSchedule' = found.currentSchedule
       /\ returned' = found.returned
       /\ sections' = RegisteredAfterRun(sections, pool)
       /\ UNCHANGED <<courses, teachers, requirements, tieOrder>>
       /\ UNCHANGED <<treeVars, scheduleVars>>

generateSchedule ==
    /\ GenerateScheduleBody
    /\ lastOp' = "generateSchedule"

\* clear() forgetting to reset currentSchedule
clear_keepCurrent ==
    /\ courses' = <<>>
    /\ teachers' = <<>>
    /\ sections' = <<>>
    /\ requirements' = <<>>
    /\ possibleSchedules' = <<>>
    /\ lastOp' = "clear"
    /\ NoRunOutputs
    /\ UNCHANGED <<currentSchedule, tieOrder>>
    /\ UNCHANGED <<treeVars, scheduleVars>>

clear ==
    /\ courses' = <<>>
    /\ teachers' = <<>>
    /\ sections' = <<>>
    /\ requirements' = <<>>
    /\ possibleSchedules' = <<>>
    /\ currentSchedule' = 0
    /\ lastOp' = "clear"
    /\ NoRunOutputs
    /\ UNCHANGED tieOrder
    /\ UNCHANGED <<treeVars, scheduleVars>>

Next ==
    \/ \E section \in SectionObjects : (NoResultHeld /\ addSection(section))
    \/ \E requirement \in RequirementObjects : (NoResultHeld /\ addRequirement(requirement))
    \/ \E requirement \in RequirementObjects : (NoResultHeld /\ removeRequirement(requirement))
    \/ generateSchedule
    \/ clear

Spec == Init /\ [][Next]_vars

\* ------------------------------------------- generateSchedule() called again
\* a call of generateSchedule() that directly follows a call of it, with
\* nothing registered, removed or cleared in between
generateScheduleAgain ==
    /\ lastOp \in {"generateSchedule", "generateSchedule again"}
    /\ GenerateScheduleBody
    /\ lastOp' = "generateSchedule again"

NextRerun ==
    \/ \E section \in SectionObjects : (NoResultHeld /\ addSection(section))
    \/ \E requirement \in RequirementObjects : (NoResultHeld /\ addRequirement(requirement))
    \/ \E requirement \in RequirementObjects : (NoResultHeld /\ removeRequirement(requirement))
    \/ (lastOp \notin {"generateSchedule", "generateSchedule again"} /\ generateSchedule)
    \/ generateScheduleAgain
    \/ clear

SpecRerun == Init /\ [][NextRerun]_vars

\* ------------------------------------------------- calls in any order
\* Every public operation at any time, also while the scheduler holds the
\* result of an earlier run, over two sections of different teachers, one pin
\* and one course-level requirement.
CallSections == {SectionById("A"), SectionById("D")}

CallRequirements ==
    {r \in RequirementObjects :
        \/ r.kind = "SectionTimeSlot" /\ r.section = "A" /\ hasStartTime(r.timeSlot)
        \/ r.kind = "Teacher"}

NextCalls ==
    \/ \E course \in Courses : addCourse(course)
    \/ \E teacher \in Teachers : addTeacher(teacher)
    \/ \E section \in CallSections : addSection(section)
    \/ \E requirement \in CallRequirements : addRequirement(requirement)
    \/ \E requirement \in CallRequirements : removeRequirement(requirement)
    \/ generateSchedule
    \/ clear

SpecCalls == Init /\ [][NextCalls]_vars

\* --------------------------------------------------------- PQTree by hand
\* The trees a caller builds with createLeaf / createPNode / createQNode and
\* addChild before handing the top node to setRoot: leaves, nodes over up to
\* MaxLeaves leaves, and nodes over up to MaxNestedChildren children that are
\* leaves or nodes over two leaves.
MaxLeaves == 3
MaxNestedChildren == 2

TreeLabels == {SectionLabel(s) : s \in SectionObjects}

NestedLabels == {SectionLabel(SectionById("A")), SectionLabel(SectionById("C"))}

SeqsUpTo(S, n) == UNION {[1..k -> S] : k \in 0..n}

InnerNodes(children) ==
    {PNode(NodeLabel(""), c) : c \in children} \cup {QNode(NodeLabel(""), c) : c \in children}

LeafNodes == {Leaf(l) : l \in TreeLabels}

FlatNodes == InnerNodes(SeqsUpTo(LeafNodes, MaxLeaves))

PairNodes == InnerNodes({<<Leaf(a), Leaf(b)>> : a, b \in NestedLabels})

NestedNodes ==
    InnerNodes(SeqsUpTo({Leaf(l) : l \in NestedLabels} \cup PairNodes, MaxNestedChildren))

TreeNodes == LeafNodes \cup FlatNodes \cup NestedNodes

\* setRoot and buildTimeOrderedTree overwrite the root whatever the tree held
\* before: the calls are taken on a tree that has no root yet.
PQTree_setRoot(node) ==
    /\ treeRoot = NullRoot
    /\ treeRoot' = node
    /\ frontiers' = <<>>
    /\ treeOp' = "setRoot"
    /\ treeArg' = <<>>
    /\ treeResult' = FALSE
    /\ UNCHANGED <<schedulerVars, tieOrder, scheduleVars>>

PQTree_getFrontiers ==
    /\ frontiers' = getFrontiers(treeRoot)
    /\ treeOp' = "getFrontiers"
    /\ treeArg' = <<>>
    /\ treeResult' = FALSE
    /\ UNCHANGED <<treeRoot, schedulerVars, tieOrder, scheduleVars>>

\* the vectors of sections buildTimeOrderedTree is called with: different
\* sections that have a day and a start time, or neither
BuildObjects ==
    {s \in PlacedObjects : hasDay(s.timeSlot) = hasStartTime(s.timeSlot)}

BuildLists ==
    {l \in SeqsUpTo(BuildObjects, MaxLeaves) :
         \A i, j \in 1..Len(l) : i # j => l[i] # l[j]}

PQTree_buildTimeOrderedTree(secs) ==
    /\ treeRoot = NullRoot
    /\ treeRoot' = buildTimeOrderedTree(secs)
    /\ frontiers' = <<>>
    /\ treeOp' = "buildTimeOrderedTree"
    /\ treeArg' = secs
    /\ treeResult' = FALSE
    /\ UNCHANGED <<schedulerVars, tieOrder, scheduleVars>>

NextTree ==
    \/ \E node \in TreeNodes : PQTree_setRoot(node)
    \/ \E secs \in BuildLists : PQTree_buildTimeOrderedTree(secs)
    \/ PQTree_getFrontiers

SpecTree == Init /\ [][NextTree]_vars

\* ------------------------------------------------- PQTree reduce and reorder
\* The trees reduce and reorder are called on: leaves, nodes over different
\* leaves, and nodes holding a node over two different leaves followed by
\* fewer than MaxNestedChildren leaves.
DistinctLeafNodes ==
    {n \in FlatNodes : \A i, j \in 1..Len(n.children) :
                           i # j => n.children[i] # n.children[j]}

OnePairNodes ==
    InnerNodes({<<pair>> \o after :
                    pair \in {n \in PairNodes : n.children[1] # n.children[2]},
                    after \in SeqsUpTo({Leaf(l) : l \in NestedLabels}, MaxNestedChildren - 1)})

ReorderNodes == LeafNodes \cup DistinctLeafNodes \cup OnePairNodes

\* the label sets reduce is called with
ReduceSubsets == SUBSET NestedLabels \cup {{SectionLabel(SectionById("D"))}}

PQTree_reduce(subset) ==
    LET reduced == reduce(treeRoot, subset)
    IN /\ treeRoot' = reduced.root
       /\ treeResult' = reduced.result
       /\ treeOp' = "reduce"
       /\ treeArg' = subset
       /\ UNCHANGED <<frontiers, schedulerVars, tieOrder, scheduleVars>>

\* frontiers keeps what getFrontiers() returned before the call
PQTree_reorder ==
    /\ \E node \in reorder(treeRoot) : treeRoot' = node
    /\ treeOp' = IF treeOp = "getFrontiers" THEN "getFrontiers, reorder" ELSE "reorder"
    /\ treeArg' = <<>>
    /\ treeResult' = FALSE
    /\ UNCHANGED <<frontiers, schedulerVars, tieOrder, scheduleVars>>

NextReorder ==
    \/ \E node \in ReorderNodes : PQTree_setRoot(node)
    \/ PQTree_getFrontiers
    \/ \E subset \in ReduceSubsets : PQTree_reduce(subset)
    \/ PQTree_reorder

SpecReorder == Init /\ [][NextReorder]_vars

\* ------------------------------------------------------- Schedule by hand
\* Schedules of up to MaxScheduleLen of the PlacedObjects.
MaxScheduleLen == 2

\* Schedule::addSection: a section the schedule already holds is not added
Schedule_addSection(schedule, section) ==
    IF section \in Range(schedule) THEN schedule ELSE Append(schedule, section)

A_addSection(section) ==
    /\ Len(scheduleA) < MaxScheduleLen
    /\ scheduleA' = Schedule_addSection(scheduleA, section)
    /\ query' = <<"addSection">>
    /\ answer' = FALSE
    /\ UNCHANGED <<scheduleB, schedulerVars, tieOrder, treeVars>>

B_addSection(section) ==
    /\ Len(scheduleB) < MaxScheduleLen
    /\ scheduleB' = Schedule_addSection(scheduleB, section)
    /\ query' = <<"addSection">>
    /\ answer' = FALSE
    /\ UNCHANGED <<scheduleA, schedulerVars, tieOrder, treeVars>>

A_hasConflicts ==
    /\ query' = <<"hasConflicts">>
    /\ answer' = hasConflicts(scheduleA)
    /\ UNCHANGED <<scheduleA, scheduleB, schedulerVars, tieOrder, treeVars>>

A_isSatisfied(requirement) ==
    /\ query' = <<"isSatisfied", requirement>>
    /\ answer' = isSatisfied(requirement, scheduleA)
    /\ UNCHANGED <<scheduleA, scheduleB, schedulerVars, tieOrder, treeVars>>

AB_areSchedulesEquivalent ==
    /\ query' = <<"areSchedulesEquivalent">>
    /\ answer' = areSchedulesEquivalent(scheduleA, scheduleB)
    /\ UNCHANGED <<scheduleA, scheduleB, schedulerVars, tieOrder, treeVars>>

NextSchedule ==
    \/ \E section \in PlacedObjects : A_addSection(section)
    \/ \E section \in PlacedObjects : B_addSection(section)
    \/ A_hasConflicts
    \/ \E requirement \in PinObjects : A_isSatisfied(requirement)
    \/ AB_areSchedulesEquivalent

SpecSchedule == Init /\ [][NextSchedule]_vars

\* ------------------------------------- tryCreateScheduleWithTimes on its own
\* The registries tryCreateScheduleWithTimes reads: any selection of the
\* sections below in this registration order, and up to MaxRequirements
\* section pins in any order.
PlacementSections ==
    << Section("E", "MA101", "T2", DurationOnly(120)),
       Section("A", "CS101", "T1", DurationOnly(60)),
       Section("C", "MA101", "T1", DurationOnly(90)),
       Section("F", "CS101", "T2", DurationOnly(120)),
       Section("D", "CS101", "T2", DurationOnly(60)),
       Section("G", "MA101", "T2", DurationOnly(90)),
       Section("B", "CS101", "T1", DurationOnly(60)) >>

RegisteredLists ==
    {SelectSeq(PlacementSections, LAMBDA s : s.id \in ids) :
        ids \in SUBSET {PlacementSections[i].id : i \in 1..Len(PlacementSections)}}

RequirementLists ==
    {r \in SeqsUpTo(PinObjects, MaxRequirements) :
        \A i, j \in 1..Len(r) : i # j => r[i] # r[j]}

InitPlacement ==
    /\ courses = <<>>
    /\ teachers = <<>>
    /\ sections \in RegisteredLists
    /\ requirements \in RequirementLists
    /\ possibleSchedules = <<>>
    /\ currentSchedule = 0
    /\ permutations = <<>>
    /\ candidates = <<>>
    /\ returned = FALSE
    /\ lastOp = "register"
    /\ tieOrder \in {"keep", "flip"}
    /\ TreeInit
    /\ ScheduleInit

\* the part of generateSchedule()'s loop body that ends with the call of
\* tryCreateScheduleWithTimes, for the k-th frontier
call_tryCreateScheduleWithTimes(k) ==
    LET perms == getFrontiers(buildTimeOrderedTree(sections))
    IN /\ k \in 1..Len(perms)
       /\ permutations' = perms
       /\ candidates' = Candidates(sections, requirements, <<perms[k]>>)
       /\ lastOp' = "tryCreateScheduleWithTimes"
       /\ UNCHANGED <<courses, teachers, sections, requirements, possibleSchedules,
                      currentSchedule, returned, tieOrder>>
       /\ UNCHANGED <<treeVars, scheduleVars>>

NextPlacement == \E k \in 1..2 : call_tryCreateScheduleWithTimes(k)

SpecPlacement == InitPlacement /\ [][NextPlacement]_vars


\* ================================================================== claims
AfterRun == lastOp = "generateSchedule"

PoolIndices == 1..Len(possibleSchedules)

RegisteredIds == {sections[i].id : i \in 1..Len(sections)}

\* the schedules of the pool every registered requirement is satisfied by
Satisfying ==
    {i \in PoolIndices :
        \A k \in 1..Len(requirements) : isSatisfied(requirements[k], possibleSchedules[i])}

\* half-open ranges [start, start + duration) on the same day intersect
SlotsIntersect(a, b) ==
    /\ hasDay(a) /\ hasDay(b) /\ hasStartTime(a) /\ hasStartTime(b)
    /\ a.day = b.day
    /\ \E minute \in StartTotalMinutes(a)..(StartTotalMinutes(a) + a.durationMinutes - 1) :
           /\ StartTotalMinutes(b) <= minute
           /\ minute < StartTotalMinutes(b) + b.durationMinutes

\* the first registered SectionTimeSlotPin of a section id
IsFirstPin(k) ==
    /\ requirements[k].kind = "SectionTimeSlot"
    /\ \A m \in 1..(k - 1) : ~IsSectionReqFor(requirements[m], requirements[k].section)

\* the slot a pin with day and start time asks for a section of duration dur
PinSlot(req, dur) ==
    TimeSlot(dur, req.timeSlot.day, req.timeSlot.startHour, req.timeSlot.startMinute)

\* C1: generateSchedule() returns true exactly when the pool holds a schedule
\* that satisfies every registered requirement, and currentSchedule is then
\* the first such schedule in pool order.
C1_TrueIffSatisfyingFirst ==
    AfterRun =>
        /\ returned = (Satisfying # {})
        /\ returned => /\ currentSchedule \in Satisfying
                       /\ \A i \in Satisfying : currentSchedule <= i

\* a run that returned true with a schedule other than the first of the pool
C1_Witness ==
    /\ AfterRun /\ returned /\ requirements # <<>>
    /\ currentSchedule > 1 /\ 1 \notin Satisfying

\* C2: with a non-empty pool in which no schedule satisfies every
\* requirement, generateSchedule() returns false and currentSchedule is the
\* first schedule of the pool, not null.
C2_FallbackToFirst ==
    (AfterRun /\ possibleSchedules # <<>> /\ Satisfying = {}) =>
        (returned = FALSE /\ currentSchedule = 1)

C2_Witness ==
    /\ AfterRun /\ Len(possibleSchedules) > 1 /\ Satisfying = {}
    /\ returned = FALSE /\ currentSchedule = 1

\* C3: after generateSchedule() every schedule of the pool is conflict-free:
\* no two of its sections have the same teacher and intersecting time slots.
C3_PoolConflictFree ==
    AfterRun =>
        \A i \in PoolIndices :
            \A m, n \in 1..Len(possibleSchedules[i]) :
                (m # n /\ possibleSchedules[i][m].teacher = possibleSchedules[i][n].teacher)
                    => ~SlotsIntersect(possibleSchedules[i][m].timeSlot,
                                       possibleSchedules[i][n].timeSlot)

\* a variant in the pool holding two sections of one teacher on the same day
C3_Witness ==
    /\ AfterRun
    /\ \E i \in PoolIndices : \E m, n \in 1..Len(possibleSchedules[i]) :
           /\ i > 1 /\ m # n
           /\ possibleSchedules[i][m].teacher = possibleSchedules[i][n].teacher
           /\ possibleSchedules[i][m].timeSlot.day = possibleSchedules[i][n].timeSlot.day
           /\ hasStartTime(possibleSchedules[i][m].timeSlot)
           /\ hasStartTime(possibleSchedules[i][n].timeSlot)

\* C4: the pool is deduplicated: no two entries at different positions are
\* equivalent schedules.
C4_PoolDeduplicated ==
    AfterRun =>
        \A i, j \in PoolIndices :
            i # j => ~areSchedulesEquivalent(possibleSchedules[i], possibleSchedules[j])

\* C5: for a pin with day and start time on a registered section (the first
\* pin registered for that section), every schedule of the pool holds the
\* section, holds it only at the pinned day and start time, and satisfies
\* the pin.
C5_PinnedPlacedExactly ==
    AfterRun =>
        \A k \in 1..Len(requirements) :
            ( /\ IsFirstPin(k)
              /\ hasDay(requirements[k].timeSlot) /\ hasStartTime(requirements[k].timeSlot)
              /\ requirements[k].section \in RegisteredIds )
            => \A i \in PoolIndices :
                   /\ \E m \in 1..Len(possibleSchedules[i]) :
                          possibleSchedules[i][m].id = requirements[k].section
                   /\ \A m \in 1..Len(possibleSchedules[i]) :
                          possibleSchedules[i][m].id = requirements[k].section =>
                              possibleSchedules[i][m].timeSlot =
                                  PinSlot(requirements[k],
                                          possibleSchedules[i][m].timeSlot.durationMinutes)
                   /\ isSatisfied(requirements[k], possibleSchedules[i])

\* two registered sections of one teacher whose (first) pins give intersecting
\* slots on the same day
OverlappingPins ==
    \E a, b \in 1..Len(sections) : \E k, l \in 1..Len(requirements) :
        /\ a # b
        /\ sections[a].teacher = sections[b].teacher
        /\ IsFirstPin(k) /\ requirements[k].section = sections[a].id
        /\ IsFirstPin(l) /\ requirements[l].section = sections[b].id
        /\ SlotsIntersect(PinSlot(requirements[k], sections[a].timeSlot.durationMinutes),
                          PinSlot(requirements[l], sections[b].timeSlot.durationMinutes))

\* C6: when two registered sections of one teacher are pinned to intersecting
\* slots on the same day, the pool is empty after generateSchedule(), the call
\* returned false and currentSchedule is null.
C6_OverlappingPinsEmptyPool ==
    (AfterRun /\ OverlappingPins) =>
        (possibleSchedules = <<>> /\ returned = FALSE /\ currentSchedule = 0)

\* C7: with no registered section generateSchedule() returns false, the pool
\* is empty and currentSchedule is null, whatever requirements are registered.
C7_NoSectionsNoSchedules ==
    (AfterRun /\ sections = <<>>) =>
        (returned = FALSE /\ possibleSchedules = <<>> /\ currentSchedule = 0)

C7_Witness ==
    /\ AfterRun /\ sections = <<>> /\ Len(requirements) = MaxRequirements
    /\ possibleSchedules = <<>>

\* C8: the tree built from an empty section list has no frontier at all.
C8_EmptyTreeNoFrontier ==
    (AfterRun /\ sections = <<>>) => permutations = <<>>

\* C9: every schedule of the pool holds exactly one entry for each registered
\* section: the ids of its entries are pairwise distinct and are the
\* registered ids.
C9_OneEntryPerSection ==
    AfterRun =>
        \A i \in PoolIndices :
            /\ Len(possibleSchedules[i]) = Len(sections)
            /\ \A m, n \in 1..Len(possibleSchedules[i]) :
                   m # n => possibleSchedules[i][m].id # possibleSchedules[i][n].id
            /\ {possibleSchedules[i][m].id : m \in 1..Len(possibleSchedules[i])}
                   = RegisteredIds

\* C10: every section of every schedule of the pool has a weekday and a
\* start time.
C10_CompletedTimeSlots ==
    AfterRun =>
        \A i \in PoolIndices : \A m \in 1..Len(possibleSchedules[i]) :
            /\ possibleSchedules[i][m].timeSlot.day \in MONDAY..FRIDAY
            /\ hasDay(possibleSchedules[i][m].timeSlot)
            /\ hasStartTime(possibleSchedules[i][m].timeSlot)

\* ------------------------------------------------------------------- C11
AfterRerun == lastOp = "generateSchedule again"

\* C11: a call of generateSchedule() that directly follows another call, with
\* the sections and requirements unchanged, returns what the first call
\* returned and leaves a pool of the same size whose entries are, position by
\* position, equivalent to those of the first call: nothing of the first run
\* is carried into the second.
C11_RerunSameResult ==
    [][(lastOp' = "generateSchedule again") =>
          /\ returned' = returned
          /\ Len(possibleSchedules') = Len(possibleSchedules)
          /\ \A i \in 1..Len(possibleSchedules) :
                 /\ areSchedulesEquivalent(possibleSchedules[i], possibleSchedules'[i])
                 /\ areSchedulesEquivalent(possibleSchedules'[i], possibleSchedules[i])]_vars

\* a second run in a row over a pool of several schedules, one of them accepted
C11_Witness ==
    /\ AfterRerun
    /\ returned
    /\ Len(possibleSchedules) > 1
    /\ Len(requirements) > 0

\* ------------------------------------------------------------ C12, C13
AfterGetFrontiers == treeOp = "getFrontiers"

\* the leaf labels beneath node, from left to right
RECURSIVE LeavesOf(_)
LeavesOf(node) ==
    IF node.type = "LEAF" THEN <<node.label>>
    ELSE Flatten([i \in 1..Len(node.children) |-> LeavesOf(node.children[i])])

Factorial(k) == IF k = 0 THEN 1 ELSE LET f[i \in 1..k] == IF i = 1 THEN 1 ELSE i * f[i - 1] IN f[k]

IsPermutationOf(p, q) ==
    /\ Len(p) = Len(q)
    /\ \A l \in Range(p) \cup Range(q) :
           Cardinality({i \in 1..Len(p) : p[i] = l}) = Cardinality({i \in 1..Len(q) : q[i] = l})

\* C12: for a tree whose root is a Q-node, getFrontiers() returns the leaves
\* beneath the root from left to right and that sequence reversed, and nothing
\* else: two frontiers, or one when the sequence reads the same both ways.
C12_QRootForwardAndReverse ==
    (AfterGetFrontiers /\ treeRoot.type = "Q_NODE") =>
        LET forward == LeavesOf(treeRoot)
        IN /\ Range(frontiers) = {forward, Reverse(forward)}
           /\ Len(frontiers) = IF forward = Reverse(forward) THEN 1 ELSE 2

\* C13: for a tree whose root is a P-node with k leaves of pairwise distinct
\* labels beneath it, directly or through child nodes, getFrontiers() returns
\* exactly k! frontiers, each a permutation of those k labels.
C13_PRootAllPermutations ==
    LET leaves == LeavesOf(treeRoot)
        k == Len(leaves)
    IN (/\ AfterGetFrontiers
        /\ treeRoot.type = "P_NODE"
        /\ Cardinality(Range(leaves)) = k) =>
           /\ Len(frontiers) = Factorial(k)
           /\ \A i \in 1..Len(frontiers) : IsPermutationOf(frontiers[i], leaves)

\* ------------------------------------------------------------------- C14
\* no two sections of sched have the same teacher and intersecting slots
TeacherClashFree(sched) ==
    \A m, n \in 1..Len(sched) :
        (m # n /\ sched[m].teacher = sched[n].teacher)
            => ~SlotsIntersect(sched[m].timeSlot, sched[n].timeSlot)

\* one course, two 60-minute sections given by different teachers, no pin on
\* a section
ExampleOne ==
    /\ Len(sections) = 2
    /\ sections[1].course = sections[2].course
    /\ sections[1].teacher # sections[2].teacher
    /\ \A i \in 1..2 : sections[i].timeSlot.durationMinutes = 60
    /\ \A k \in 1..Len(requirements) : requirements[k].kind # "SectionTimeSlot"

\* C14: for one course with two 60-minute sections of different teachers and
\* no pins, the pool after generateSchedule() is not empty, every schedule in
\* it is conflict-free, its first schedule (the greedy pass) has the two
\* sections on different weekdays, both at 08:00, and so the pool holds a
\* schedule with the two sections at different (day, start) combinations.
C14_ExampleOne ==
    (AfterRun /\ ExampleOne) =>
        /\ possibleSchedules # <<>>
        /\ \A i \in PoolIndices : TeacherClashFree(possibleSchedules[i])
        /\ LET base == possibleSchedules[1]
           IN /\ Len(base) = 2
              /\ {base[1].id, base[2].id} = RegisteredIds
              /\ \A m \in 1..2 : /\ base[m].timeSlot.day \in MONDAY..FRIDAY
                                 /\ base[m].timeSlot.startHour = 8
                                 /\ base[m].timeSlot.startMinute = 0
              /\ base[1].timeSlot.day # base[2].timeSlot.day
        /\ \E i \in PoolIndices :
               /\ Len(possibleSchedules[i]) = 2
               /\ <<possibleSchedules[i][1].timeSlot.day,
                    possibleSchedules[i][1].timeSlot.startHour,
                    possibleSchedules[i][1].timeSlot.startMinute>>
                  # <<possibleSchedules[i][2].timeSlot.day,
                       possibleSchedules[i][2].timeSlot.startHour,
                       possibleSchedules[i][2].timeSlot.startMinute>>

\* a run on the two sections of the example that produced several schedules
C14_Witness ==
    /\ AfterRun /\ ExampleOne
    /\ Len(possibleSchedules) > 1
    /\ returned

\* ----------------------------------------------------------- C15, C16, C17
AfterHasConflicts == query = <<"hasConflicts">>

\* C15: Schedule::hasConflicts() is true exactly when two distinct sections
\* of the schedule have the same teacher, both have a day and a start time,
\* are on the same day, and their half-open ranges [start, start + duration)
\* share a minute; slots that only touch and sections without a day or a
\* start time never make a conflict.
C15_ConflictIffTeacherOverlap ==
    AfterHasConflicts =>
        (answer = \E m, n \in 1..Len(scheduleA) :
                      /\ m # n
                      /\ scheduleA[m].teacher = scheduleA[n].teacher
                      /\ SlotsIntersect(scheduleA[m].timeSlot, scheduleA[n].timeSlot))

\* no conflict found in a schedule holding two back-to-back sections of one
\* teacher and a section of that teacher without a start time
C15_Witness ==
    /\ AfterHasConflicts
    /\ answer = FALSE
    /\ \E m, n \in 1..Len(scheduleA) :
           /\ scheduleA[m].teacher = scheduleA[n].teacher
           /\ scheduleA[m].timeSlot.day = scheduleA[n].timeSlot.day
           /\ hasStartTime(scheduleA[m].timeSlot) /\ hasStartTime(scheduleA[n].timeSlot)
           /\ StartTotalMinutes(scheduleA[m].timeSlot) + scheduleA[m].timeSlot.durationMinutes
                  = StartTotalMinutes(scheduleA[n].timeSlot)

\* the pin asked about last, when the last call was isSatisfied
AfterIsSatisfied == Len(query) = 2 /\ query[1] = "isSatisfied"

\* section s is where the pin req wants it
AtPinnedSlot(req, s) ==
    /\ s.id = req.section
    /\ s.timeSlot.day = req.timeSlot.day
    /\ hasStartTime(req.timeSlot) =>
           /\ s.timeSlot.startHour = req.timeSlot.startHour
           /\ s.timeSlot.startMinute = req.timeSlot.startMinute

\* C16: a SectionTimeSlotPin is satisfied by a schedule only if the schedule
\* holds a section with the pinned id on the required day and, when the pin
\* gives a start time, at that hour and minute (so never by a schedule without
\* a section of that id); a day-only pin accepts the section on that day
\* whatever its start time.
C16_PinSatisfiedOnlyAtPinnedSlot ==
    AfterIsSatisfied =>
        /\ answer => \E m \in 1..Len(scheduleA) : AtPinnedSlot(query[2], scheduleA[m])
        /\ ( /\ ~hasStartTime(query[2].timeSlot)
             /\ \E m \in 1..Len(scheduleA) : scheduleA[m].id = query[2].section
             /\ \A m \in 1..Len(scheduleA) :
                    scheduleA[m].id = query[2].section =>
                        scheduleA[m].timeSlot.day = query[2].timeSlot.day )
           => answer

\* a day-only pin satisfied by a section that has a start time
C16_Witness ==
    /\ AfterIsSatisfied
    /\ answer
    /\ ~hasStartTime(query[2].timeSlot)
    /\ \E m \in 1..Len(scheduleA) :
           AtPinnedSlot(query[2], scheduleA[m]) /\ hasStartTime(scheduleA[m].timeSlot)

AfterAreSchedulesEquivalent == query = <<"areSchedulesEquivalent">>

\* what areSchedulesEquivalent compares of a section
EquivalenceKey(s) ==
    <<s.course, s.teacher, s.timeSlot.day, s.timeSlot.startHour, s.timeSlot.startMinute>>

\* C17: areSchedulesEquivalent(A, B) is true exactly when A and B hold the
\* same number of sections and the course code, teacher id, day, start hour
\* and start minute of every section of A are those of some section of B;
\* the order of the sections, their ids and their durations play no part.
C17_EquivalentIffCovered ==
    AfterAreSchedulesEquivalent =>
        (answer = ( /\ Len(scheduleA) = Len(scheduleB)
                    /\ {EquivalenceKey(scheduleA[i]) : i \in 1..Len(scheduleA)}
                         \subseteq {EquivalenceKey(scheduleB[j]) : j \in 1..Len(scheduleB)} ))

\* schedules found equivalent whose matching sections stand at different
\* positions and differ in id and duration
C17_Witness ==
    /\ AfterAreSchedulesEquivalent
    /\ answer
    /\ Len(scheduleA) = 2
    /\ EquivalenceKey(scheduleA[1]) = EquivalenceKey(scheduleB[2])
    /\ EquivalenceKey(scheduleA[1]) # EquivalenceKey(scheduleB[1])
    /\ scheduleA[1].id # scheduleB[2].id
    /\ scheduleA[1].timeSlot.durationMinutes # scheduleB[2].timeSlot.durationMinutes

\* ----------------------------------------------------------- C18, C19, C20
AfterPlacement == lastOp = "tryCreateScheduleWithTimes"

\* a SectionTimeSlotPin is registered for the id of section s
Pinned(s) ==
    \E k \in 1..Len(requirements) :
        requirements[k].kind = "SectionTimeSlot" /\ requirements[k].section = s.id

\* the first pin registered for the id
FirstPinOf(id) ==
    requirements[CHOOSE k \in 1..Len(requirements) :
                     IsFirstPin(k) /\ requirements[k].section = id]

SetMax(S) == CHOOSE x \in S : \A y \in S : y <= x

\* start + duration of a placed section, in minutes of the day
EndMinutes(s) == StartTotalMinutes(s.timeSlot) + s.timeSlot.durationMinutes

\* the watermark of day d when entry m of sched is placed: 08:00 raised to the
\* latest end of the entries placed on d before it
WatermarkAt(sched, m, d) ==
    SetMax({DayStartMinutes} \cup
           {EndMinutes(sched[j]) : j \in {i \in 1..(m - 1) : sched[i].timeSlot.day = d}})

\* the flexible entries of sched
FlexibleAt(sched) == {m \in 1..Len(sched) : ~Pinned(sched[m])}

\* C18: in a schedule returned by tryCreateScheduleWithTimes all pinned
\* sections stand before all flexible ones; every weekday's watermark is 08:00
\* raised to the latest end (pin start + duration) of the pins on it; each
\* flexible section is on the weekday whose watermark is smallest when it is
\* placed, the earliest such weekday on ties, starts exactly at that
\* watermark, and its end is the day's watermark from then on.
C18_GreedyWatermarkPlacement ==
    AfterPlacement =>
        \A c \in 1..Len(candidates) :
            LET sched == candidates[c].baseSchedule
            IN /\ \A m, n \in 1..Len(sched) :
                      (Pinned(sched[m]) /\ ~Pinned(sched[n])) => m < n
               /\ \A m \in FlexibleAt(sched) :
                      LET d == sched[m].timeSlot.day
                      IN /\ d \in MONDAY..FRIDAY
                         /\ \A e \in MONDAY..FRIDAY :
                                /\ WatermarkAt(sched, m, d) <= WatermarkAt(sched, m, e)
                                /\ WatermarkAt(sched, m, d) = WatermarkAt(sched, m, e) => d <= e
                         /\ sched[m].timeSlot.startMinute \in 0..59
                         /\ StartTotalMinutes(sched[m].timeSlot) = WatermarkAt(sched, m, d)

\* a schedule in which a pin raised Monday's watermark, the first flexible
\* section went to a later day, and a flexible section starts after 08:00 at
\* the end of the section placed on its day before it
C18_Witness ==
    /\ AfterPlacement
    /\ \E c \in 1..Len(candidates) :
           LET sched == candidates[c].baseSchedule
           IN /\ \E m \in 1..Len(sched) :
                     /\ Pinned(sched[m])
                     /\ sched[m].timeSlot.day = MONDAY
                     /\ EndMinutes(sched[m]) > DayStartMinutes
              /\ \E m \in FlexibleAt(sched) :
                     /\ \A n \in FlexibleAt(sched) : m <= n
                     /\ sched[m].timeSlot.day = TUESDAY
              /\ \E m, n \in FlexibleAt(sched) :
                     /\ sched[m].timeSlot.day = sched[n].timeSlot.day
                     /\ StartTotalMinutes(sched[n].timeSlot) = EndMinutes(sched[m])

\* C19: in a schedule returned by tryCreateScheduleWithTimes no flexible
\* section stands after a strictly shorter flexible one, whatever the order
\* of the input; so on any single day the flexible sections, read by start
\* time, have non-increasing durations.
C19_FlexibleLongestFirst ==
    AfterPlacement =>
        \A c \in 1..Len(candidates) :
            LET sched == candidates[c].baseSchedule
            IN \A m, n \in FlexibleAt(sched) :
                   /\ m < n => sched[m].timeSlot.durationMinutes
                                   >= sched[n].timeSlot.durationMinutes
                   /\ ( /\ sched[m].timeSlot.day = sched[n].timeSlot.day
                        /\ StartTotalMinutes(sched[m].timeSlot)
                               < StartTotalMinutes(sched[n].timeSlot) )
                      => sched[m].timeSlot.durationMinutes
                             >= sched[n].timeSlot.durationMinutes

\* an input ordering with a flexible section before a longer flexible one,
\* and a day on which a flexible section follows a strictly longer one
C19_Witness ==
    /\ AfterPlacement
    /\ \E c \in 1..Len(candidates) :
           LET sched == candidates[c].baseSchedule
               idx == candidates[c].sectionIndices
           IN /\ \E p, q \in 1..Len(idx) :
                     /\ p < q
                     /\ ~Pinned(sections[idx[p]]) /\ ~Pinned(sections[idx[q]])
                     /\ sections[idx[p]].timeSlot.durationMinutes
                            < sections[idx[q]].timeSlot.durationMinutes
              /\ \E m, n \in FlexibleAt(sched) :
                     /\ sched[m].timeSlot.day = sched[n].timeSlot.day
                     /\ StartTotalMinutes(sched[m].timeSlot)
                            < StartTotalMinutes(sched[n].timeSlot)
                     /\ sched[m].timeSlot.durationMinutes > sched[n].timeSlot.durationMinutes

\* two elements of the input ordering idx are pinned sections of one teacher
\* whose pins ask for intersecting slots
PinnedClash(idx) ==
    \E p, q \in 1..Len(idx) :
        /\ p # q
        /\ Pinned(sections[idx[p]]) /\ Pinned(sections[idx[q]])
        /\ sections[idx[p]].teacher = sections[idx[q]].teacher
        /\ SlotsIntersect(PinSlot(FirstPinOf(sections[idx[p]].id),
                                  sections[idx[p]].timeSlot.durationMinutes),
                          PinSlot(FirstPinOf(sections[idx[q]].id),
                                  sections[idx[q]].timeSlot.durationMinutes))

\* C20: tryCreateScheduleWithTimes returns the empty schedule when sections
\* of the input ordering clash (same teacher, intersecting slots), and
\* otherwise a conflict-free schedule with exactly one placed section per
\* element of the input ordering, each with the course, teacher and duration
\* of its section, a pinned one exactly at its pin: never a partial schedule,
\* never a section moved away from a clash.
C20_AllOrNothing ==
    AfterPlacement =>
        \A c \in 1..Len(candidates) :
            LET sched == candidates[c].baseSchedule
                idx == candidates[c].sectionIndices
            IN IF PinnedClash(idx)
               THEN sched = <<>>
               ELSE /\ Len(sched) = Len(idx)
                    /\ TeacherClashFree(sched)
                    /\ \A i \in 1..Len(sections) :
                           Cardinality({m \in 1..Len(sched) :
                                           /\ sched[m].id = sections[i].id
                                           /\ sched[m].course = sections[i].course
                                           /\ sched[m].teacher = sections[i].teacher
                                           /\ sched[m].timeSlot.durationMinutes
                                                  = sections[i].timeSlot.durationMinutes})
                               = Cardinality({p \in 1..Len(idx) : idx[p] = i})
                    /\ \A m \in 1..Len(sched) :
                           Pinned(sched[m]) =>
                               sched[m].timeSlot =
                                   PinSlot(FirstPinOf(sched[m].id),
                                           sched[m].timeSlot.durationMinutes)

\* nothing returned for an ordering with two clashing pinned sections and
\* flexible sections that could have been placed
C20_Witness ==
    /\ AfterPlacement
    /\ \E c \in 1..Len(candidates) :
           /\ candidates[c].baseSchedule = <<>>
           /\ PinnedClash(candidates[c].sectionIndices)
           /\ \E p \in 1..Len(candidates[c].sectionIndices) :
                  ~Pinned(sections[candidates[c].sectionIndices[p]])


\* ------------------------------------------------------------------- C22
\* the Q-nodes of the tree beneath node whose children are all leaves
RECURSIVE QNodesOverLeaves(_)
QNodesOverLeaves(node) ==
    (IF node.type = "Q_NODE" /\ \A i \in 1..Len(node.children) : node.children[i].type = "LEAF"
     THEN {node} ELSE {})
    \cup UNION {QNodesOverLeaves(node.children[i]) : i \in 1..Len(node.children)}

\* block occurs in frontier as a run of neighbouring labels
OccursIn(block, frontier) ==
    \E k \in 0..(Len(frontier) - Len(block)) :
        \A i \in 1..Len(block) : frontier[k + i] = block[i]

\* C22: for any tree, P/Q nodes nested under P/Q nodes included, every
\* frontier getFrontiers() returns contains each leaf of the tree exactly once,
\* and the leaves of a Q-node stand in it in their forward or fully reversed
\* order.
C22_EachLeafOnceQOrderKept ==
    (AfterGetFrontiers /\ treeRoot.type # "NULL") =>
        \A i \in 1..Len(frontiers) :
            /\ IsPermutationOf(frontiers[i], LeavesOf(treeRoot))
            /\ \A q \in QNodesOverLeaves(treeRoot) :
                   \/ OccursIn(LeavesOf(q), frontiers[i])
                   \/ OccursIn(Reverse(LeavesOf(q)), frontiers[i])

\* ------------------------------------------------------------------- C23
AfterBuildTimeOrderedTree == treeOp = "buildTimeOrderedTree"

\* (day, start hour) of a is not after that of b
NotAfter(a, b) ==
    \/ a.timeSlot.day < b.timeSlot.day
    \/ (a.timeSlot.day = b.timeSlot.day /\ a.timeSlot.startHour <= b.timeSlot.startHour)

\* C23: buildTimeOrderedTree(sections) sets the root to one Q-node with
\* exactly one leaf child per input section, each labelled with its section's
\* description, the leaves in non-decreasing (day, start hour) order with the
\* sections that have no day last.
C23_TimeOrderedQNode ==
    AfterBuildTimeOrderedTree =>
        LET secs == treeArg
            kids == treeRoot.children
            n == Len(secs)
        IN /\ treeRoot.type = "Q_NODE"
           /\ Len(kids) = n
           /\ \A i \in 1..n : kids[i].type = "LEAF"
           /\ \E p \in Shuffles(n) :
                  /\ \A i \in 1..n : kids[i].label = SectionLabel(secs[p[i]])
                  /\ \A i \in 1..(n - 1) : NotAfter(secs[p[i]], secs[p[i + 1]])
                  /\ \A i, j \in 1..n :
                         (i < j /\ ~hasDay(secs[p[i]].timeSlot)) => ~hasDay(secs[p[j]].timeSlot)

\* three sections handed over out of order: the one without a day first, a
\* later hour before an earlier one, and two sharing day and start hour
C23_Witness ==
    /\ AfterBuildTimeOrderedTree
    /\ Len(treeArg) = MaxLeaves
    /\ ~hasDay(treeArg[1].timeSlot)
    /\ \E i, j \in 1..Len(treeArg) : i < j /\ TimeOrderLess(treeArg[j], treeArg[i])
                                     /\ treeArg[i].timeSlot.day = treeArg[j].timeSlot.day


\* ------------------------------------------------------------------- C24
\* reorder() ran right after getFrontiers(): frontiers holds the orderings
\* returned before the call
AfterReorder == treeOp = "getFrontiers, reorder"

\* the same node types and labels, level by level, whatever the order of the
\* children
RECURSIVE SameNodes(_, _)
SameNodes(a, b) ==
    /\ a.type = b.type
    /\ a.label = b.label
    /\ Len(a.children) = Len(b.children)
    /\ \E f \in Shuffles(Len(a.children)) :
           \A i \in 1..Len(a.children) : SameNodes(a.children[i], b.children[f[i]])

\* C24: after reorder() the left-to-right leaf order of the tree is one of
\* the orderings getFrontiers() returned before the call, whatever random
\* choices reorder() made.
C24_ReorderedLeafOrderIsAFrontier ==
    (AfterReorder /\ treeRoot.type # "NULL") => LeavesOf(treeRoot) \in Range(frontiers)

\* C24: a reorder() step changes no node type, no label and not the multiset
\* of leaves.
C24_ReorderKeepsNodes ==
    [][treeOp' \in {"reorder", "getFrontiers, reorder"} =>
           /\ SameNodes(treeRoot, treeRoot')
           /\ IsPermutationOf(LeavesOf(treeRoot'), LeavesOf(treeRoot))]_vars


\* ------------------------------------------------------------------- C26
AfterReduce == treeOp = "reduce"

\* C26: reduce(subset) returns true for every subset (empty, with labels the
\* tree does not hold, with labels that are neighbours in no frontier) and
\* leaves the tree as it was, so that getFrontiers() returns the same
\* frontiers before and after the call.
C26_ReduceTrueTreeUnchanged ==
    [][treeOp' = "reduce" =>
           /\ treeResult' = TRUE
           /\ treeRoot' = treeRoot
           /\ getFrontiers(treeRoot') = getFrontiers(treeRoot)]_vars

\* reduce was called on a Q-node over three leaves with the two outer labels,
\* which are neighbours in neither frontier
C26_Witness ==
    /\ AfterReduce
    /\ treeRoot.type = "Q_NODE"
    /\ Len(treeRoot.children) = 3
    /\ Len(frontiers) = 2
    /\ treeArg = {treeRoot.children[1].label, treeRoot.children[3].label}
    /\ treeRoot.children[2].label \notin treeArg
    /\ Cardinality(treeArg) = 2


\* ------------------------------------------------------------------- C30
\* every section of sched has a day, a start time and a positive duration
FullyPlaced(sched) ==
    \A i \in 1..Len(sched) :
        /\ hasDay(sched[i].timeSlot)
        /\ hasStartTime(sched[i].timeSlot)
        /\ sched[i].timeSlot.durationMinutes > 0

\* C30: on schedules without conflicts whose sections all have a day, a start
\* time and a positive duration, areSchedulesEquivalent(A, B) and
\* areSchedulesEquivalent(B, A) give the same answer.
C30_EquivalenceSymmetric ==
    (/\ AfterAreSchedulesEquivalent
     /\ FullyPlaced(scheduleA) /\ FullyPlaced(scheduleB)
     /\ ~hasConflicts(scheduleA) /\ ~hasConflicts(scheduleB))
        => (answer = areSchedulesEquivalent(scheduleB, scheduleA))

\* two conflict-free, fully placed schedules of two sections each that are
\* equivalent although they hold different sections in different order
C30_Witness ==
    /\ AfterAreSchedulesEquivalent
    /\ answer
    /\ Len(scheduleA) = 2 /\ Len(scheduleB) = 2
    /\ FullyPlaced(scheduleA) /\ FullyPlaced(scheduleB)
    /\ ~hasConflicts(scheduleA) /\ ~hasConflicts(scheduleB)
    /\ scheduleA[1] # scheduleB[1]
    /\ Range(scheduleA) # Range(scheduleB)


\* ------------------------------------------------------------------- C28
\* C28: in every base schedule built by tryCreateScheduleWithTimes the slot of
\* a flexible section intersects the slot of no other section of the
\* schedule, whatever the teachers; so a candidate is discarded only when two
\* pinned sections of one teacher are pinned to intersecting slots, and when
\* no two such sections are registered and at least one section is, the pool
\* is not empty after generateSchedule().
C28_OnlyPinsClash ==
    AfterRun =>
        /\ \A c \in 1..Len(candidates) :
               LET sched == candidates[c].baseSchedule
               IN /\ \A m \in FlexibleAt(sched) : \A n \in 1..Len(sched) :
                          m # n => ~SlotsIntersect(sched[m].timeSlot, sched[n].timeSlot)
                  /\ (sched = <<>> /\ candidates[c].sectionIndices # <<>>)
                         => OverlappingPins
        /\ (sections # <<>> /\ ~OverlappingPins) => possibleSchedules # <<>>


\* ------------------------------------------------------------------- C29
\* the SectionTimeSlotPin requirements among reqs, in their order
PinsOnly(reqs) == SelectSeq(reqs, LAMBDA r : r.kind = "SectionTimeSlot")

\* C29: the pool depends on the registered sections and the SectionTimeSlotPin
\* requirements only: generateSchedule() leaves the pool it would leave with
\* every course-level requirement taken away; of its results only the
\* selected schedule and the returned boolean depend on them.
C29_PoolIgnoresCourseRequirements ==
    AfterRun =>
        possibleSchedules =
            ForEachPermutation(sections, PinsOnly(requirements),
                               getFrontiers(buildTimeOrderedTree(sections)), <<>>)

\* a run with a pin and a course-level requirement that some schedule of the
\* pool does not satisfy
C29_Witness ==
    /\ AfterRun
    /\ Len(possibleSchedules) > 1
    /\ PinsOnly(requirements) # <<>>
    /\ \E k \in 1..Len(requirements) : \E i \in PoolIndices :
           /\ requirements[k].kind # "SectionTimeSlot"
           /\ ~isSatisfied(requirements[k], possibleSchedules[i])


\* ------------------------------------------------------------------- C21
\* slot moved v days on, modulo the five weekdays: the start time kept for
\* v = 1, 09:00 for v = 2, 14:00 for v = 3; the duration kept
MovedSlot(slot, v) ==
    [slot EXCEPT !.day = (slot.day + v) % 5,
                 !.startHour = IF v = 1 THEN @ ELSE IF v = 2 THEN 9 ELSE 14,
                 !.startMinute = IF v = 1 THEN @ ELSE 0]

\* base with its m-th entry moved and nothing else changed
MovedEntry(base, m, v) ==
    [i \in 1..Len(base) |->
        IF i = m THEN [base[i] EXCEPT !.timeSlot = MovedSlot(@, v)] ELSE base[i]]

\* pool after the variants tries[k], tries[k + 1], ... of base were tried in
\* turn: one enters when it has no conflict and is equivalent to no schedule
\* the pool holds by then
RECURSIVE WithVariants(_, _, _, _)
WithVariants(base, tries, k, pool) ==
    IF k > Len(tries) THEN pool
    ELSE LET variant == MovedEntry(base, tries[k][1], tries[k][2])
             enters == /\ ~hasConflicts(variant)
                       /\ \A e \in 1..Len(pool) : ~areSchedulesEquivalent(variant, pool[e])
         IN WithVariants(base, tries, k + 1,
                         IF enters THEN Append(pool, variant) ELSE pool)

\* the entries of base without a pin, each with v = 1, 2, 3, in order
VariantTries(base) ==
    LET flexible == SelectSeq([m \in 1..Len(base) |-> m], LAMBDA m : ~Pinned(base[m]))
    IN [k \in 1..(3 * Len(flexible)) |-> <<flexible[((k - 1) \div 3) + 1], ((k - 1) % 3) + 1>>]

\* the pool built from the base schedules candidates[c], candidates[c + 1], ...
RECURSIVE PoolFromBases(_, _)
PoolFromBases(c, pool) ==
    IF c > Len(candidates) THEN pool
    ELSE LET base == candidates[c].baseSchedule
         IN PoolFromBases(c + 1,
                IF base = <<>> THEN pool
                ELSE WithVariants(base, VariantTries(base), 1, Append(pool, base)))

\* C21: for each accepted base schedule and each of its sections without a
\* SectionTimeSlotPin, createScheduleVariations tries exactly the three
\* variants v = 1, 2, 3 that move only that section to day (baseDay + v) mod 5
\* with the start time unchanged, 09:00 and 14:00, keeping its id, course,
\* teacher and duration and the placement of every other section; a variant
\* enters the pool only if it has no conflict and is equivalent to no schedule
\* already in the pool.
C21_ThreeVariantsPerFlexibleSection ==
    AfterRun =>
        LET expected == PoolFromBases(1, <<>>)
        IN /\ Len(possibleSchedules) = Len(expected)
           /\ \A i \in PoolIndices : IsPermutationOf(possibleSchedules[i], expected[i])


\* ------------------------------------------------------------------- C25
\* C25: a call of generateSchedule() leaves the registries of courses,
\* teachers, sections and requirements as they were, the TimeSlot of every
\* registered section included: days and times are written to the new Section
\* values inside the candidate schedules only.
C25_RunKeepsRegistries ==
    [][lastOp' = "generateSchedule" =>
           /\ courses' = courses
           /\ teachers' = teachers
           /\ sections' = sections
           /\ requirements' = requirements]_vars

\* after a run with every registry filled: the pool holds placed sections
\* while the registered ones still have neither day nor start time
C25_Witness ==
    /\ AfterRun
    /\ courses # <<>> /\ teachers # <<>> /\ requirements # <<>>
    /\ Len(sections) = 2
    /\ \A i \in 1..Len(sections) :
           ~hasDay(sections[i].timeSlot) /\ ~hasStartTime(sections[i].timeSlot)
    /\ Len(possibleSchedules) > 1
    /\ \A i \in PoolIndices : \A m \in 1..Len(possibleSchedules[i]) :
           hasDay(possibleSchedules[i][m].timeSlot)

\* ------------------------------------------------------------------- C27
\* C27: after any sequence of addCourse, addTeacher, addSection,
\* addRequirement, removeRequirement, generateSchedule and clear calls the
\* current schedule is null or one of the schedules of the pool; it is null
\* whenever the pool is empty, and not null whenever the last call was a
\* generateSchedule() that left the pool non-empty.
C27_CurrentScheduleFromPool ==
    /\ currentSchedule \in 0..Len(possibleSchedules)
    /\ possibleSchedules = <<>> => currentSchedule = 0
    /\ (AfterRun /\ possibleSchedules # <<>>) => currentSchedule # 0

\* the result of an earlier run is still held while sections and
\* requirements have been registered since
C27_Witness ==
    /\ lastOp = "register"
    /\ currentSchedule # 0
    /\ Len(possibleSchedules[currentSchedule]) < Len(sections)
    /\ requirements # <<>>
    /\ courses # <<>> /\ teachers # <<>>

====
